---- MODULE Spec2Model ----
(***************************************************************************)
(* A model of src/index.js: watch(globs, opts, cb), the stream it returns  *)
(* and the raw-event correlator processEvent / write.                      *)
(*                                                                         *)
(* Reading of the source.  index.js declares `mod`, `glob` and             *)
(* `currentFilepath` with `const` and then assigns to them (lines 52-55    *)
(* and 101-103).  The model reads these three bindings as assignable       *)
(* locals: it is the only reading under which watch() has behaviours at    *)
(* all, and every definition below follows the statements as written       *)
(* under that reading.                                                     *)
(*                                                                         *)
(* Data.  A path is the sequence of its segments below the filesystem      *)
(* root (<<>> is "/").  A string handed in by a caller or by the watcher   *)
(* is a record [neg, abs, segs]: a leading "!", a leading "/", and the     *)
(* segments as written, "." and ".." included.  A resolved glob is         *)
(* [neg, segs].  The collaborators that are not in this repository         *)
(* (anymatch, glob-parent, path, chokidar, vinyl-file, timers, promises)   *)
(* are modelled by their documented contract at the place index.js calls   *)
(* them.                                                                   *)
(***************************************************************************)
EXTENDS Integers, Sequences, FiniteSets

VARIABLES
    session,        \* "none" before watch(), "running" after it returned, "threw"
    thrown,         \* message of the PluginError the last watch()/add() threw, or NoError
    originalGlobs,  \* the globs argument as passed to watch()
    opts,           \* the session's options, defaults merged in
    globs,          \* the live, resolved pattern list
    watched,        \* what the chokidar watcher was told to watch, one entry per call
    closed,         \* watcher.close() has been called
    crashed,        \* the process was ended by an unhandled promise rejection
    timers,         \* read-delay timers pending, in the order they were set
    reads,          \* vinyl.read() calls in flight
    failed,         \* ids of raw events whose vinyl.read() promise was rejected
    pushed,         \* file objects pushed to the readable side, in order
    cbLog,          \* file objects the per-file callback was called with, in order
    emitted,        \* named events emitted on the output stream, in order
    logged,         \* fancyLog.info() calls, in order
    rawLog,         \* raw watcher events in arrival order
    written,        \* file objects written into the stream, in order
    calls,          \* number of add() and _write() calls made on the stream
    listening,      \* the stream has a listener for 'error'
    errors,         \* errors the watcher reported, with what line 82 passed to emit
    walk,           \* one run of the owner walk of line 103, statement by statement
    defaults        \* watch._defaultOptions, the object of lines 170-174

vars == <<session, thrown, originalGlobs, opts, globs, watched, closed, crashed,
          timers, reads, failed, pushed, cbLog, emitted, logged, rawLog, written, calls,
          listening, errors, walk, defaults>>

----------------------------------------------------------------------------
(* Bounds of the model *)

MaxInputs == 3
MaxLen == 2

----------------------------------------------------------------------------
(* Values *)

NoError == "none"
MissingArgument == "glob argument required"
InvalidArgument == "glob should be String or Array"

ProcessCwd == <<"w">>

UnlinkKinds == {"unlink", "unlinkDir"}
\* the kinds of raw event the modelled watcher reports
Kinds == {"add", "unlink", "unlinkDir"}
MirroredKinds == {"add", "change", "unlink", "addDir", "unlinkDir", "error", "ready", "raw"}

JsNames == {"a.js", "t.js", "c.js"}
GlobSegs == {"*", "**", "*.js"}

Str(neg, abs, segs) == [neg |-> neg, abs |-> abs, segs |-> segs]
EmptyStr == Str(FALSE, FALSE, <<>>)

\* JavaScript values a caller may pass as the globs argument
JsUndefined == [t |-> "undefined", v |-> <<>>, n |-> 0]
JsNumber(n) == [t |-> "number", v |-> <<>>, n |-> n]
JsObject == [t |-> "object", v |-> <<>>, n |-> 0]
JsString(s) == [t |-> "string", v |-> <<s>>, n |-> 0]
JsArray(ss) == [t |-> "array", v |-> ss, n |-> 0]

SrcAll == Str(FALSE, FALSE, <<"src", "**">>)
SrcDir == Str(FALSE, TRUE, <<"w", "x", "..", "src">>)
NotA == Str(TRUE, FALSE, <<"src", "a.js">>)
TestsJs == Str(FALSE, FALSE, <<"tests", "*.js">>)

AddArgs == { JsUndefined, JsNumber(123), JsArray(<<>>), JsArray(<<TestsJs>>) }

RawPaths ==
    { Str(FALSE, FALSE, <<"src", "a.js">>),
      Str(FALSE, TRUE, <<"w", "tests", ".", "t.js">>) }

ForcedBase == <<"w", "out">>

\* watch._defaultOptions, lines 170-174
DefaultOptions == [events |-> {"add", "change", "unlink"}, ignoreInitial |-> TRUE, readDelay |-> 10]

\* opts arguments: an option that is not set is the empty set, one that is set a singleton
EmptyOptions == [events |-> {}, cwd |-> {}, base |-> {}, verbose |-> {}]
FullOptions ==
    [events |-> {{"add", "unlink", "unlinkDir"}}, cwd |-> {ProcessCwd}, base |-> {ForcedBase},
     verbose |-> {TRUE}]

WatchCall(x, o) == [globs |-> x, opts |-> o]

\* the calls of watch(globs, opts) the model makes
WatchCalls ==
    { WatchCall(JsUndefined, EmptyOptions),
      WatchCall(JsString(EmptyStr), EmptyOptions),
      WatchCall(JsNumber(123), EmptyOptions),
      WatchCall(JsNumber(0), EmptyOptions),
      WatchCall(JsObject, FullOptions),
      WatchCall(JsArray(<<>>), EmptyOptions),
      WatchCall(JsString(SrcAll), EmptyOptions),
      WatchCall(JsArray(<<SrcDir, NotA>>), FullOptions) }

NoOpts == [events |-> {}, ignoreInitial |-> TRUE, readDelay |-> 0, cwd |-> {}, base |-> {},
           verbose |-> FALSE]

File(id, path, event, base, contents) ==
    [id |-> id, path |-> path, event |-> event, base |-> base, contents |-> contents]

\* file objects a caller writes into the stream; id 0: not made from a raw event
InjectFiles ==
    { File(0, <<"w", "in", "x.js">>, "none", <<"w", "in">>, "data"),
      File(0, <<"w", "in", "y.js">>, "none", <<"w", "in">>, "data") }

----------------------------------------------------------------------------
(* Pure functions *)

Truthy(x) ==
    CASE x.t = "undefined" -> FALSE
      [] x.t = "number" -> x.n # 0
      [] x.t = "string" -> x.v[1] # EmptyStr
      [] OTHER -> TRUE

\* normalizeGlobs, lines 16-30
normalizeGlobs(x) ==
    IF ~Truthy(x) THEN [err |-> MissingArgument, val |-> <<>>]
    ELSE IF x.t \in {"string", "array"} THEN [err |-> NoError, val |-> x.v]
    ELSE [err |-> InvalidArgument, val |-> <<>>]

\* path.normalize / path.resolve on segments: "." and the empty segment of "//" or of a
\* trailing "/" are dropped, ".." pops
RECURSIVE NormSegs(_, _)
NormSegs(done, rest) ==
    IF rest = <<>> THEN done
    ELSE IF Head(rest) \in {".", ""} THEN NormSegs(done, Tail(rest))
    ELSE IF Head(rest) = ".."
         THEN NormSegs(IF done = <<>> THEN done ELSE SubSeq(done, 1, Len(done) - 1), Tail(rest))
    ELSE NormSegs(Append(done, Head(rest)), Tail(rest))

Cwd(o) == IF o.cwd = {} THEN ProcessCwd ELSE CHOOSE c \in o.cwd : TRUE

TrailingSlash(segs) == segs # <<>> /\ segs[Len(segs)] = ""

\* resolveFilepath, lines 44-49: path.normalize keeps a trailing "/", path.resolve does not
resolveFilepath(o, s) ==
    IF s.abs
    THEN LET n == NormSegs(<<>>, s.segs)
         IN IF TrailingSlash(s.segs) /\ n # <<>> THEN Append(n, "") ELSE n
    ELSE NormSegs(<<>>, Cwd(o) \o s.segs)

\* what a segment written with a backslash is once the backslash is a slash
SplitBackslash(seg) == IF seg = "lib\\b.js" THEN <<"lib", "b.js">> ELSE <<seg>>

\* normalize-path, line 59: backslashes become slashes, trailing slashes are dropped
RECURSIVE normalize(_)
normalize(segs) ==
    IF segs = <<>> THEN <<>>
    ELSE IF Head(segs) = "" THEN normalize(Tail(segs))
    ELSE SplitBackslash(Head(segs)) \o normalize(Tail(segs))

\* resolveGlob with `return normalize(resolveFilepath(glob))`: the "!" is not put back
resolveGlobDropMod(o, s) ==
    [neg |-> FALSE, segs |-> normalize(resolveFilepath(o, [s EXCEPT !.neg = FALSE]))]

\* resolveGlob, lines 51-60
resolveGlob(o, s) ==
    [neg |-> s.neg, segs |-> normalize(resolveFilepath(o, [s EXCEPT !.neg = FALSE]))]

MapResolveGlob(o, ss) == [i \in 1..Len(ss) |-> resolveGlob(o, ss[i])]

\* one path segment against one glob segment
SegMatch(g, s) == g = s \/ g = "*" \/ (g = "*.js" /\ s \in JsNames)

\* the glob matcher: "**" stands for any number of segments, none included
RECURSIVE GlobMatch(_, _)
GlobMatch(g, p) ==
    IF g = <<>> THEN p = <<>>
    ELSE IF Head(g) = "**"
         THEN GlobMatch(Tail(g), p) \/ (p # <<>> /\ GlobMatch(g, Tail(p)))
    ELSE p # <<>> /\ SegMatch(Head(g), Head(p)) /\ GlobMatch(Tail(g), Tail(p))

\* anymatch(globs, path, true), line 103: 0 (for -1) when a negated glob matches or no
\* other glob does, else the index of the first glob that matches
anymatch(gs, p) ==
    IF \E i \in 1..Len(gs) : gs[i].neg /\ GlobMatch(gs[i].segs, p) THEN 0
    ELSE IF \E i \in 1..Len(gs) : ~gs[i].neg /\ GlobMatch(gs[i].segs, p)
         THEN CHOOSE i \in 1..Len(gs) :
                /\ ~gs[i].neg /\ GlobMatch(gs[i].segs, p)
                /\ \A j \in 1..(i - 1) : ~(~gs[j].neg /\ GlobMatch(gs[j].segs, p))
    ELSE 0

dirname(p) == IF p = <<>> THEN p ELSE SubSeq(p, 1, Len(p) - 1)

\* the owner walk, lines 101-103: index into gs of the owning glob, 0 for none
RECURSIVE FindOwner(_, _)
FindOwner(gs, cur) ==
    IF anymatch(gs, cur) # 0 THEN anymatch(gs, cur)
    ELSE IF dirname(cur) = cur THEN 0
    ELSE FindOwner(gs, dirname(cur))

\* glob-parent: drop the last segment, then every segment from the first glob one on
RECURSIVE LiteralPrefix(_)
LiteralPrefix(g) ==
    IF g = <<>> \/ Head(g) \in GlobSegs THEN <<>> ELSE <<Head(g)>> \o LiteralPrefix(Tail(g))

globParent(g) == LiteralPrefix(dirname(g.segs))

\* fileOpts.base, lines 63 and 116-118
baseForced(o) == o.base # {}

\* the base without the test of line 116: a forced base is overwritten
BaseForDerived(o, g) == globParent(g)

\* the base of a file whose owner is g, lines 116-118
BaseFor(o, g) == IF baseForced(o) THEN CHOOSE b \in o.base : TRUE ELSE globParent(g)

\* assign({}, watch._defaultOptions, opts), line 41
AssignOptions(d, o) ==
    [events |-> IF o.events = {} THEN d.events ELSE CHOOSE e \in o.events : TRUE,
     ignoreInitial |-> d.ignoreInitial,
     readDelay |-> d.readDelay,
     cwd |-> o.cwd,
     base |-> o.base,
     verbose |-> TRUE \in o.verbose]

\* file.relative: the path from base to path
RECURSIVE Relative(_, _)
Relative(base, p) ==
    IF base = <<>> THEN p
    ELSE IF p # <<>> /\ Head(base) = Head(p) THEN Relative(Tail(base), Tail(p))
    ELSE [i \in 1..Len(base) |-> ".."] \o p

----------------------------------------------------------------------------
(* The handlers, as functions of the stream-side state they change *)

Cur == [pushed |-> pushed, cbLog |-> cbLog, logged |-> logged, emitted |-> emitted,
        timers |-> timers, opts |-> opts, defaults |-> defaults]

\* log, lines 151-161; an entry also keeps what the file was tagged with and how many
\* file objects had been pushed when fancyLog.info was called
log(st, event, file) ==
    [st EXCEPT !.logged = Append(@, [kind |-> "saw", id |-> file.id, event |-> event,
                                     path |-> Relative(file.base, file.path),
                                     tagged |-> file.event, npushed |-> Len(st.pushed)])]

\* write with outputStream.unshift in the place of outputStream.push at line 147
writeUnshift(st, event, err, file) ==
    IF err # NoError
    THEN [st EXCEPT !.emitted = Append(@, [name |-> "error", id |-> file.id])]
    ELSE LET st1 == IF opts.verbose THEN log(st, event, file) ELSE st
             f == [file EXCEPT !.event = event]
         IN [st1 EXCEPT !.pushed = <<f>> \o @, !.cbLog = Append(@, f)]

\* write with the log of lines 142-144 moved behind the push of line 147
writeLogAfter(st, event, err, file) ==
    IF err # NoError
    THEN [st EXCEPT !.emitted = Append(@, [name |-> "error", id |-> file.id])]
    ELSE LET f == [file EXCEPT !.event = event]
             st1 == [st EXCEPT !.pushed = Append(@, f), !.cbLog = Append(@, f)]
         IN IF opts.verbose THEN log(st1, event, f) ELSE st1

\* write without the cb(file) of line 148
writeNoCb(st, event, err, file) ==
    IF err # NoError
    THEN [st EXCEPT !.emitted = Append(@, [name |-> "error", id |-> file.id])]
    ELSE LET st1 == IF opts.verbose THEN log(st, event, file) ELSE st
             f == [file EXCEPT !.event = event]
         IN [st1 EXCEPT !.pushed = Append(@, f)]

\* write, lines 136-149
write(st, event, err, file) ==
    IF err # NoError
    THEN [st EXCEPT !.emitted = Append(@, [name |-> "error", id |-> file.id])]
    ELSE LET st1 == IF opts.verbose THEN log(st, event, file) ELSE st
             f == [file EXCEPT !.event = event]
         IN [st1 EXCEPT !.pushed = Append(@, f), !.cbLog = Append(@, f)]

\* processEvent returning at line 105 without the report of lines 106-112
processEventDropSilently(st, id, event, s) ==
    LET filepath == resolveFilepath(opts, s)
        owner == FindOwner(globs, filepath)
    IN IF owner = 0
       THEN st
       ELSE LET base == BaseFor(opts, globs[owner])
            IN IF event \in UnlinkKinds
               THEN write(st, event, NoError, File(id, filepath, "none", base, "null"))
               ELSE [st EXCEPT !.timers = Append(@, [id |-> id, event |-> event,
                                                     path |-> filepath, base |-> base])]

\* processEvent without the `return` of line 125: a deleted file is pushed and then read
processEventNoReturn(st, id, event, s) ==
    LET filepath == resolveFilepath(opts, s)
        owner == FindOwner(globs, filepath)
    IN IF owner = 0
       THEN [st EXCEPT !.logged = Append(@, [kind |-> "unexpected", id |-> id, event |-> event,
                                             path |-> filepath])]
       ELSE LET base == BaseFor(opts, globs[owner])
                st1 == IF event \in UnlinkKinds
                       THEN write(st, event, NoError, File(id, filepath, "none", base, "null"))
                       ELSE st
            IN [st1 EXCEPT !.timers = Append(@, [id |-> id, event |-> event,
                                                 path |-> filepath, base |-> base])]

\* processEvent without the branch of lines 121-126: deleted files are read like the others
processEventStatDeleted(st, id, event, s) ==
    LET filepath == resolveFilepath(opts, s)
        owner == FindOwner(globs, filepath)
    IN IF owner = 0
       THEN [st EXCEPT !.logged = Append(@, [kind |-> "unexpected", id |-> id, event |-> event,
                                             path |-> filepath])]
       ELSE [st EXCEPT !.timers = Append(@, [id |-> id, event |-> event, path |-> filepath,
                                             base |-> BaseFor(opts, globs[owner])])]

\* processEvent clearing the pending timers of the same path before it sets its own
processEventDebounce(st, id, event, s) ==
    LET filepath == resolveFilepath(opts, s)
        owner == FindOwner(globs, filepath)
        Other(t) == t.path # filepath
    IN IF owner = 0
       THEN [st EXCEPT !.logged = Append(@, [kind |-> "unexpected", id |-> id, event |-> event,
                                             path |-> filepath])]
       ELSE LET base == BaseFor(opts, globs[owner])
            IN IF event \in UnlinkKinds
               THEN write(st, event, NoError, File(id, filepath, "none", base, "null"))
               ELSE [st EXCEPT !.timers = Append(SelectSeq(@, Other),
                                                 [id |-> id, event |-> event,
                                                  path |-> filepath, base |-> base])]

\* processEvent with fileOpts an alias of opts and not the copy of line 99: the base
\* of line 117 is written into the session's options
processEventSharedOpts(st, id, event, s) ==
    LET filepath == resolveFilepath(opts, s)
        owner == FindOwner(globs, filepath)
    IN IF owner = 0
       THEN [st EXCEPT !.logged = Append(@, [kind |-> "unexpected", id |-> id, event |-> event,
                                             path |-> filepath])]
       ELSE LET base == BaseFor(opts, globs[owner])
                st1 == [st EXCEPT !.opts.base = {base}]
            IN IF event \in UnlinkKinds
               THEN write(st1, event, NoError, File(id, filepath, "none", base, "null"))
               ELSE [st1 EXCEPT !.timers = Append(@, [id |-> id, event |-> event,
                                                      path |-> filepath, base |-> base])]

\* processEvent, lines 97-134
processEvent(st, id, event, s) ==
    LET filepath == resolveFilepath(opts, s)
        owner == FindOwner(globs, filepath)
    IN IF owner = 0
       THEN [st EXCEPT !.logged = Append(@, [kind |-> "unexpected", id |-> id, event |-> event,
                                             path |-> filepath])]
       ELSE LET base == BaseFor(opts, globs[owner])
            IN IF event \in UnlinkKinds
               THEN write(st, event, NoError, File(id, filepath, "none", base, "null"))
               ELSE [st EXCEPT !.timers = Append(@, [id |-> id, event |-> event,
                                                     path |-> filepath, base |-> base])]

\* _write passing on only file objects it has not passed on before
streamWriteDedup(st, file) ==
    IF \E k \in DOMAIN st.pushed : st.pushed[k] = file
    THEN st
    ELSE [st EXCEPT !.cbLog = Append(@, file), !.pushed = Append(@, file)]

\* outputStream._write, lines 66-70
streamWrite(st, file) == [st EXCEPT !.cbLog = Append(@, file), !.pushed = Append(@, file)]

Set(st) ==
    /\ pushed' = st.pushed
    /\ cbLog' = st.cbLog
    /\ logged' = st.logged
    /\ emitted' = st.emitted
    /\ timers' = st.timers
    /\ opts' = st.opts
    /\ defaults' = st.defaults

----------------------------------------------------------------------------
(* Actions *)

NoWalk == [gs |-> <<>>, path |-> <<>>, cur |-> <<>>, glob |-> 0, pc |-> "off", tests |-> 0]

\* the state before watch() is called, the globs argument and the owner walk left open
InitSession ==
    /\ session = "none"
    /\ thrown = NoError
    /\ listening = FALSE
    /\ defaults = DefaultOptions
    /\ errors = <<>>
    /\ opts = NoOpts
    /\ globs = <<>>
    /\ watched = <<>>
    /\ closed = FALSE
    /\ crashed = FALSE
    /\ timers = <<>>
    /\ reads = {}
    /\ failed = {}
    /\ pushed = <<>>
    /\ cbLog = <<>>
    /\ emitted = <<>>
    /\ logged = <<>>
    /\ rawLog = <<>>
    /\ written = <<>>
    /\ calls = 0

Init ==
    /\ InitSession
    /\ originalGlobs = JsUndefined
    /\ walk = NoWalk

\* watch(globs, opts, cb), lines 32-95 and 163
Watch(x, o) ==
    /\ session = "none"
    /\ originalGlobs' = x
    /\ LET r == normalizeGlobs(x)
           oo == AssignOptions(defaults, o)
       IN IF r.err # NoError
          THEN /\ session' = "threw"
               /\ thrown' = r.err
               /\ UNCHANGED <<opts, globs, watched>>
          ELSE /\ session' = "running"
               /\ opts' = oo
               /\ globs' = MapResolveGlob(oo, r.val)
               /\ watched' = <<MapResolveGlob(oo, r.val)>>
               /\ UNCHANGED thrown
    /\ UNCHANGED <<closed, crashed, timers, reads, failed, pushed, cbLog, emitted, logged,
                   rawLog, written, calls>>
    /\ UNCHANGED <<listening, errors, walk, defaults>>

Running == session = "running" /\ ~crashed

\* the watcher emits a raw event, with processEvent registered for every kind and
\* not for those of opts.events alone
RawEventAllKinds(kind, s) ==
    /\ Running
    /\ ~closed
    /\ Len(rawLog) + calls < MaxInputs
    /\ rawLog' = Append(rawLog, [kind |-> kind, path |-> s, nglobs |-> Len(globs)])
    /\ LET id == Len(rawLog) + 1
           st1 == processEvent(Cur, id, kind, s)
           st2 == IF kind \in MirroredKinds
                  THEN [st1 EXCEPT !.emitted = Append(@, [name |-> kind, id |-> id])]
                  ELSE st1
       IN Set(st2)
    /\ UNCHANGED <<session, thrown, originalGlobs, globs, watched, closed, crashed,
                   reads, failed, written, calls>>
    /\ UNCHANGED <<listening, errors, walk>>

\* the watcher emits a raw event: the listeners of lines 76-78, then those of 80-83
RawEvent(kind, s) ==
    /\ Running
    /\ ~closed
    /\ Len(rawLog) + calls < MaxInputs
    /\ rawLog' = Append(rawLog, [kind |-> kind, path |-> s, nglobs |-> Len(globs)])
    /\ LET id == Len(rawLog) + 1
           st1 == IF kind \in opts.events THEN processEvent(Cur, id, kind, s) ELSE Cur
           st2 == IF kind \in MirroredKinds
                  THEN [st1 EXCEPT !.emitted = Append(@, [name |-> kind, id |-> id])]
                  ELSE st1
       IN Set(st2)
    /\ UNCHANGED <<session, thrown, originalGlobs, globs, watched, closed, crashed,
                   reads, failed, written, calls>>
    /\ UNCHANGED <<listening, errors, walk>>

\* the read-delay timer of line 129 fires and calls vinyl.read, line 130
TimerFire ==
    /\ Running
    /\ timers # <<>>
    /\ reads' = reads \cup {Head(timers)}
    /\ timers' = Tail(timers)
    /\ UNCHANGED <<session, thrown, originalGlobs, opts, globs, watched, closed, crashed,
                   failed, pushed, cbLog, emitted, logged, rawLog, written, calls>>
    /\ UNCHANGED <<listening, errors, walk, defaults>>

\* the promise of vinyl.read is fulfilled: the then-callback of lines 130-132
ReadResolve(r) ==
    /\ Running
    /\ r \in reads
    /\ reads' = reads \ {r}
    /\ Set(write(Cur, r.event, NoError, File(r.id, r.path, "none", r.base, "data")))
    /\ UNCHANGED <<session, thrown, originalGlobs, globs, watched, closed, crashed,
                   failed, rawLog, written, calls>>
    /\ UNCHANGED <<listening, errors, walk>>

\* the promise of vinyl.read is rejected: line 130 attaches no rejection handler, so
\* the rejection is unhandled and the runtime either goes on or ends the process
ReadReject(r, ends) ==
    /\ Running
    /\ r \in reads
    /\ reads' = reads \ {r}
    /\ failed' = failed \cup {r.id}
    /\ crashed' = ends
    /\ UNCHANGED <<session, thrown, originalGlobs, opts, globs, watched, closed,
                   timers, pushed, cbLog, emitted, logged, rawLog, written, calls>>
    /\ UNCHANGED <<listening, errors, walk, defaults>>

\* a caller writes a file object into the stream: outputStream._write
StreamWrite(file) ==
    /\ Running
    /\ Len(rawLog) + calls < MaxInputs
    /\ calls' = calls + 1
    /\ written' = Append(written, file)
    /\ Set(streamWrite(Cur, file))
    /\ UNCHANGED <<session, thrown, originalGlobs, globs, watched, closed, crashed,
                   reads, failed, rawLog>>
    /\ UNCHANGED <<listening, errors, walk>>

\* add without the globs.push of line 89
AddNoPush(x) ==
    /\ Running
    /\ Len(rawLog) + calls < MaxInputs
    /\ calls' = calls + 1
    /\ LET r == normalizeGlobs(x)
       IN IF r.err # NoError
          THEN /\ thrown' = r.err
               /\ UNCHANGED <<globs, watched>>
          ELSE /\ thrown' = NoError
               /\ watched' = Append(watched, MapResolveGlob(opts, r.val))
               /\ UNCHANGED globs
    /\ UNCHANGED <<session, originalGlobs, opts, closed, crashed, timers, reads, failed,
                   pushed, cbLog, emitted, logged, rawLog, written>>
    /\ UNCHANGED <<listening, errors, walk, defaults>>

\* outputStream.add, lines 85-90
Add(x) ==
    /\ Running
    /\ Len(rawLog) + calls < MaxInputs
    /\ calls' = calls + 1
    /\ LET r == normalizeGlobs(x)
       IN IF r.err # NoError
          THEN /\ thrown' = r.err
               /\ UNCHANGED <<globs, watched>>
          ELSE /\ thrown' = NoError
               /\ watched' = Append(watched, MapResolveGlob(opts, r.val))
               /\ globs' = globs \o MapResolveGlob(opts, r.val)
    /\ UNCHANGED <<session, originalGlobs, opts, closed, crashed, timers, reads, failed,
                   pushed, cbLog, emitted, logged, rawLog, written>>
    /\ UNCHANGED <<listening, errors, walk, defaults>>

\* outputStream.close, lines 92-95
Close ==
    /\ Running
    /\ ~closed
    /\ closed' = TRUE
    /\ emitted' = Append(emitted, [name |-> "end", id |-> 0])
    /\ UNCHANGED <<session, thrown, originalGlobs, opts, globs, watched, crashed, timers,
                   reads, failed, pushed, cbLog, logged, rawLog, written, calls>>
    /\ UNCHANGED <<listening, errors, walk, defaults>>

Next ==
    \/ \E c \in WatchCalls : Watch(c.globs, c.opts)
    \/ \E kind \in Kinds, s \in RawPaths : RawEvent(kind, s)
    \/ TimerFire
    \/ \E r \in reads : ReadResolve(r)
    \/ \E r \in reads, ends \in BOOLEAN : ReadReject(r, ends)
    \/ \E file \in InjectFiles : StreamWrite(file)
    \/ \E x \in AddArgs : Add(x)
    \/ Close

Spec == Init /\ [][Next]_vars

----------------------------------------------------------------------------
(* Watcher errors: a session whose caller may attach an 'error' listener to *)
(* the stream, and whose watcher may report errors.                         *)

WatcherErrors == {"EACCES", "ENOSPC"}

\* the caller attaches a listener for 'error' to the stream returned at line 163
OnError ==
    /\ Running
    /\ ~listening
    /\ listening' = TRUE
    /\ UNCHANGED <<session, thrown, originalGlobs, opts, globs, watched, closed, crashed,
                   timers, reads, failed, pushed, cbLog, emitted, logged, rawLog, written,
                   calls, errors, walk, defaults>>

\* the forwarder of 'error' with a watcher.close() and an 'end' after the emit
WatcherErrorEnds(e) ==
    /\ Running
    /\ ~closed
    /\ Len(rawLog) + calls < MaxInputs
    /\ calls' = calls + 1
    /\ errors' = Append(errors, [reported |-> e, forwarded |-> e, at |-> Len(rawLog)])
    /\ emitted' = emitted \o <<[name |-> "error", id |-> 0], [name |-> "end", id |-> 0]>>
    /\ closed' = TRUE
    /\ IF listening
       THEN UNCHANGED <<thrown, crashed>>
       ELSE thrown' = e /\ crashed' = TRUE
    /\ UNCHANGED <<session, originalGlobs, opts, globs, watched, timers, reads, failed,
                   pushed, cbLog, logged, rawLog, written, listening, walk, defaults>>

\* the watcher emits 'error': the listener of lines 80-83 calls
\* outputStream.emit('error', e); with no listener for 'error' on the stream, emit
\* throws e out of the watcher's callback and the exception is uncaught
WatcherError(e) ==
    /\ Running
    /\ ~closed
    /\ Len(rawLog) + calls < MaxInputs
    /\ calls' = calls + 1
    /\ errors' = Append(errors, [reported |-> e, forwarded |-> e, at |-> Len(rawLog)])
    /\ emitted' = Append(emitted, [name |-> "error", id |-> 0])
    /\ IF listening
       THEN UNCHANGED <<thrown, crashed>>
       ELSE thrown' = e /\ crashed' = TRUE
    /\ UNCHANGED <<session, originalGlobs, opts, globs, watched, closed, timers, reads,
                   failed, pushed, cbLog, logged, rawLog, written, listening, walk, defaults>>

NextErrors ==
    \/ \E c \in WatchCalls : Watch(c.globs, c.opts)
    \/ OnError
    \/ \E e \in WatcherErrors : WatcherError(e)
    \/ \E kind \in Kinds, s \in RawPaths : RawEvent(kind, s)
    \/ TimerFire
    \/ \E r \in reads : ReadResolve(r)
    \/ \E r \in reads, ends \in BOOLEAN : ReadReject(r, ends)
    \/ Close

SpecErrors == Init /\ [][NextErrors]_vars

----------------------------------------------------------------------------
(* The owner walk of line 103 on its own, one evaluation of the loop        *)
(* condition per step: for every list of up to MaxLen patterns of WalkGlobs *)
(* (the empty list included, which watch([]) leaves behind) and every path  *)
(* of WalkPaths.                                                            *)

WalkGlobs ==
    { [neg |-> FALSE, segs |-> <<"w", "src", "**">>],
      [neg |-> TRUE,  segs |-> <<"w", "src", "a.js">>],
      [neg |-> FALSE, segs |-> <<"w", "tests", "*.js">>],
      [neg |-> FALSE, segs |-> <<"w", "src">>],
      [neg |-> FALSE, segs |-> <<"w">>] }

WalkPaths ==
    { <<"w", "src", "a.js">>, <<"w", "src", "lib", "b.js">>, <<"w", "tests", "t.js">>,
      <<"v", "x.js">>, <<>> }

InitWalk ==
    /\ InitSession
    /\ originalGlobs = JsUndefined
    /\ \E n \in 0..MaxLen : \E gs \in [1..n -> WalkGlobs] : \E p \in WalkPaths :
          walk = [gs |-> gs, path |-> p, cur |-> p, glob |-> 0, pc |-> "loop", tests |-> 0]

\* the loop condition with the two sides of !== read after the assignment, so that
\* the comparison is of the new value with itself
WalkStepCompareNew ==
    /\ walk.pc = "loop"
    /\ LET m == anymatch(walk.gs, walk.cur)
       IN walk' = IF m # 0
                  THEN [walk EXCEPT !.glob = m, !.pc = "done", !.tests = @ + 1]
                  ELSE [walk EXCEPT !.cur = dirname(walk.cur), !.pc = "done",
                                    !.tests = @ + 1]
    /\ UNCHANGED <<session, thrown, originalGlobs, opts, globs, watched, closed, crashed,
                   timers, reads, failed, pushed, cbLog, emitted, logged, rawLog, written,
                   calls, listening, errors, defaults>>

\* one evaluation of the loop condition of line 103: the match of the candidate and,
\* when it fails, the step to the candidate's dirname, compared with the old candidate
WalkStep ==
    /\ walk.pc = "loop"
    /\ LET m == anymatch(walk.gs, walk.cur)
       IN walk' = IF m # 0
                  THEN [walk EXCEPT !.glob = m, !.pc = "done", !.tests = @ + 1]
                  ELSE [walk EXCEPT !.cur = dirname(walk.cur),
                                    !.pc = IF walk.cur # dirname(walk.cur)
                                           THEN "loop" ELSE "done",
                                    !.tests = @ + 1]
    /\ UNCHANGED <<session, thrown, originalGlobs, opts, globs, watched, closed, crashed,
                   timers, reads, failed, pushed, cbLog, emitted, logged, rawLog, written,
                   calls, listening, errors, defaults>>

NextWalk == WalkStep

\* the loop runs to its end once started: nothing else runs in between
SpecWalk == InitWalk /\ [][NextWalk]_vars /\ WF_vars(WalkStep)

----------------------------------------------------------------------------
(* Pattern normalization on its own: watch() called with every string of    *)
(* NormStrs and every list of them up to MaxLen, under two working          *)
(* directories.                                                             *)

NormStrs ==
    { Str(FALSE, FALSE, <<"src", "**">>),
      Str(TRUE, FALSE, <<"src", "a.js">>),
      Str(FALSE, TRUE, <<"w", "x", "..", "src">>),
      Str(TRUE, TRUE, <<"w", "src", "">>),
      Str(FALSE, FALSE, <<"lib\\b.js">>),
      Str(TRUE, FALSE, <<".", "tests", "*.js">>) }

NormArgs ==
    {JsString(g) : g \in NormStrs}
        \cup {JsArray(ss) : ss \in UNION {[1..n -> NormStrs] : n \in 1..MaxLen}}

OtherCwd == <<"v", "proj">>

NormOptions == {EmptyOptions, [EmptyOptions EXCEPT !.cwd = {OtherCwd}]}

InitNorm ==
    /\ InitSession
    /\ originalGlobs \in NormArgs
    /\ walk = NoWalk

NextNorm == \E o \in NormOptions : Watch(originalGlobs, o)

SpecNorm == InitNorm /\ [][NextNorm]_vars

----------------------------------------------------------------------------
(* What the properties are stated in *)

Range(seq) == {seq[k] : k \in DOMAIN seq}

Count(seq, id) == Cardinality({k \in DOMAIN seq : seq[k].id = id})

IsWatchFile(f) == f.id # 0

\* the file objects the correlator pushed: the File Change Events
WatchPushes(seq) == SelectSeq(seq, IsWatchFile)

\* raw event i as it was handled: its kind, its resolved path, the pattern list of then
Enabled(i) == rawLog[i].kind \in opts.events
PathOf(i) == resolveFilepath(opts, rawLog[i].path)
GlobsAt(i) == SubSeq(globs, 1, rawLog[i].nglobs)
OwnerAt(i) == FindOwner(GlobsAt(i), PathOf(i))
Pending(i) == \E t \in Range(timers) \cup reads : t.id = i

----------------------------------------------------------------------------
(* C1.  After close() no File Change Event is pushed downstream any more,   *)
(* whatever timers and reads were pending when close() was called.          *)
C1_NoPushAfterClose == [][closed => WatchPushes(pushed') = WatchPushes(pushed)]_vars

(* C2.  A rejected content read is reported as an 'error' event on the      *)
(* output stream, its raw event pushes no File Change Event, and the        *)
(* session goes on.                                                         *)
C2_ReadFailureSurfaced ==
    \A i \in failed :
        /\ \E k \in DOMAIN emitted : emitted[k].name = "error" /\ emitted[k].id = i
        /\ Count(pushed, i) = 0
        /\ ~crashed

(* C3.  A raw event of an enabled kind whose path has an owner and whose    *)
(* read, if it needs one, has succeeded has exactly one File Change Event   *)
(* in the stream; every other raw event has none; and no File Change Event  *)
(* is there before its raw event.                                           *)
C3_ExactlyOnce ==
    /\ \A k \in DOMAIN pushed : pushed[k].id \in 0..Len(rawLog)
    /\ \A i \in DOMAIN rawLog :
          /\ Count(pushed, i) <= 1
          /\ Count(pushed, i) = 1
                <=> (Enabled(i) /\ OwnerAt(i) # 0 /\ ~Pending(i) /\ i \notin failed)

C3_Witness ==
    \E k \in DOMAIN pushed :
        /\ pushed[k].id # 0
        /\ pushed[k].contents = "data"
        /\ \E i \in DOMAIN rawLog : Pending(i)

(* C4.  The path of every File Change Event matches a non-negated pattern   *)
(* of the pattern set and no negated one.                                   *)
C4_EmittedPathsMatch ==
    \A k \in DOMAIN pushed :
        IsWatchFile(pushed[k]) =>
            /\ \E j \in DOMAIN globs : ~globs[j].neg /\ GlobMatch(globs[j].segs, pushed[k].path)
            /\ ~\E j \in DOMAIN globs : globs[j].neg /\ GlobMatch(globs[j].segs, pushed[k].path)

(* C5.  An unlink or unlinkDir raw event never has a timer or a read; its   *)
(* File Change Event is in the stream as soon as the raw event has been     *)
(* handled, with the resolved path, the kind, and no contents.              *)
C5_UnlinkSynchronous ==
    /\ \A t \in Range(timers) \cup reads : t.event \notin UnlinkKinds
    /\ \A i \in DOMAIN rawLog :
          (rawLog[i].kind \in UnlinkKinds /\ Enabled(i) /\ OwnerAt(i) # 0) =>
              \E k \in DOMAIN pushed :
                  /\ pushed[k].id = i
                  /\ pushed[k].path = PathOf(i)
                  /\ pushed[k].event = rawLog[i].kind
                  /\ pushed[k].contents = "null"
    /\ \A k \in DOMAIN pushed : pushed[k].event \in UnlinkKinds => pushed[k].contents = "null"

C5_Witness ==
    \E k \in DOMAIN pushed : pushed[k].event = "unlinkDir" /\ pushed[k].contents = "null"

(* C6.  A raw event whose path and ancestors have no owner pushes no File   *)
(* Change Event, does not reach the per-file callback, sets no timer, and   *)
(* is reported exactly once; raw events that arrive after it are handled    *)
(* as usual.                                                                *)
Unowned(i) == Enabled(i) /\ OwnerAt(i) = 0

C6_UnownedDropped ==
    \A i \in DOMAIN rawLog :
        Unowned(i) =>
            /\ Count(pushed, i) = 0
            /\ Count(cbLog, i) = 0
            /\ ~Pending(i)
            /\ Cardinality({k \in DOMAIN logged :
                              logged[k].kind = "unexpected" /\ logged[k].id = i}) = 1
            /\ \A j \in DOMAIN rawLog :
                  (j > i /\ Enabled(j) /\ OwnerAt(j) # 0) =>
                      \/ Pending(j)
                      \/ j \in failed
                      \/ Count(pushed, j) = 1 /\ Count(cbLog, j) = 1

C6_Witness ==
    \E i, j \in DOMAIN rawLog :
        /\ Unowned(i)
        /\ j > i
        /\ Count(pushed, j) = 1
        /\ \E k \in DOMAIN logged : logged[k].kind = "unexpected" /\ logged[k].id = i

(* C7.  A step that changes the live pattern list or what the watcher was   *)
(* told to watch is a successful add(): it appends the normalized new       *)
(* patterns to the list, hands the same patterns to the watcher and leaves  *)
(* the session, its timers, its reads and its stream as they were.  A raw   *)
(* event handled afterwards whose owner is one of the appended patterns is  *)
(* emitted with the base of that pattern.                                   *)
RECURSIVE Concat(_)
Concat(ss) == IF ss = <<>> THEN <<>> ELSE Head(ss) \o Concat(Tail(ss))

AddedOwner(i) == Enabled(i) /\ OwnerAt(i) > Len(watched[1])

C7_Attributed ==
    /\ globs = Concat(watched)
    /\ \A i \in DOMAIN rawLog :
          (AddedOwner(i) /\ ~Pending(i) /\ i \notin failed) =>
              \E k \in DOMAIN pushed :
                  /\ pushed[k].id = i
                  /\ pushed[k].base = BaseFor(opts, globs[OwnerAt(i)])

C7_AddExtends ==
    /\ []C7_Attributed
    /\ [][(session = "running" /\ (globs' # globs \/ watched' # watched)) =>
            /\ \E x \in AddArgs :
                  /\ normalizeGlobs(x).err = NoError
                  /\ globs' = globs \o MapResolveGlob(opts, normalizeGlobs(x).val)
                  /\ watched' = Append(watched, MapResolveGlob(opts, normalizeGlobs(x).val))
            /\ UNCHANGED <<session, opts, closed, crashed, timers, reads, failed, pushed,
                           cbLog, emitted, logged, rawLog>>]_vars

C7_Witness ==
    \E i \in DOMAIN rawLog, k \in DOMAIN pushed :
        /\ AddedOwner(i)
        /\ pushed[k].id = i
        /\ pushed[k].base = <<"w", "tests">>

(* C8.  File Change Events of raw events on different paths are pushed in   *)
(* the order in which their raw events arrived.                             *)
C8_ArrivalOrder ==
    \A k1, k2 \in DOMAIN pushed :
        (/\ k1 < k2
         /\ IsWatchFile(pushed[k1])
         /\ IsWatchFile(pushed[k2])
         /\ pushed[k1].path # pushed[k2].path) => pushed[k1].id < pushed[k2].id

(* C8, amended.  The File Change Event of an unlink or unlinkDir raw event  *)
(* is never pushed after that of a raw event which arrived later.           *)
C8_UnlinkNotOvertaken ==
    \A k1, k2 \in DOMAIN pushed :
        (/\ IsWatchFile(pushed[k1])
         /\ IsWatchFile(pushed[k2])
         /\ pushed[k1].id < pushed[k2].id
         /\ rawLog[pushed[k1].id].kind \in UnlinkKinds) => k1 < k2

C8_Witness ==
    \E k1, k2 \in DOMAIN pushed :
        /\ IsWatchFile(pushed[k1])
        /\ pushed[k1].event \in UnlinkKinds
        /\ pushed[k2].id > pushed[k1].id
        /\ pushed[k2].event \notin UnlinkKinds
        /\ pushed[k2].path # pushed[k1].path

(* C9.  The file objects written into the stream are exactly the file       *)
(* objects the per-file callback was called with and exactly the written    *)
(* file objects pushed downstream, each as often and in the order written.  *)
IsWritten(f) == f.id = 0

C9_WritesForwarded ==
    /\ SelectSeq(pushed, IsWritten) = written
    /\ SelectSeq(cbLog, IsWritten) = written

C9_Witness ==
    /\ Len(written) >= 2
    /\ written[1] = written[2]
    /\ Len(SelectSeq(pushed, IsWritten)) >= 2

(* C10.  watch() throws MissingArgument for an absent or empty globs        *)
(* argument and InvalidArgument for one that is neither a string nor a      *)
(* list, in both cases before the watcher is started.                       *)
IsAbsentOrEmpty(x) ==
    \/ x.t = "undefined"
    \/ x.t = "string" /\ x.v[1] = EmptyStr
    \/ x.t = "array" /\ x.v = <<>>

C10_ArgumentErrors ==
    session # "none" =>
        /\ IsAbsentOrEmpty(originalGlobs) => (session = "threw" /\ thrown = MissingArgument)
        /\ originalGlobs.t \notin {"undefined", "string", "array"}
              => (session = "threw" /\ thrown = InvalidArgument)
        /\ session = "threw" => (watched = <<>> /\ globs = <<>> /\ emitted = <<>>)

(* C11.  For a string or a non-empty list of strings, the pattern list of  *)
(* the session has one entry for each input, in the order of the input;    *)
(* the entry is negated exactly when its input is, and it is the input as  *)
(* an absolute, slash-normalized path: no ".", "..", empty or backslash    *)
(* segment, below the working directory when the input is relative, and    *)
(* left alone when it is resolved again.                                   *)
IsAbsoluteNormal(segs) ==
    \A k \in DOMAIN segs : segs[k] \notin {".", "..", ""} /\ SplitBackslash(segs[k]) = <<segs[k]>>

IsPrefix(a, b) == Len(a) <= Len(b) /\ SubSeq(b, 1, Len(a)) = a

BaseAsClaimed(f) ==
    f.base = (IF opts.base # {} THEN CHOOSE b \in opts.base : TRUE
              ELSE globParent(globs[OwnerAt(f.id)]))

C12_BaseIsAncestor ==
    \A k \in DOMAIN pushed :
        IsWatchFile(pushed[k]) =>
            BaseAsClaimed(pushed[k]) /\ IsPrefix(pushed[k].base, pushed[k].path)

(* C12, amended.  The base is the forced base when the options set one, and *)
(* otherwise the glob parent of the owning pattern; a base taken from the   *)
(* owning pattern is an ancestor of the event's path, and the path is the   *)
(* base followed by the relative path.                                      *)
C12_BaseOfOwner ==
    \A k \in DOMAIN pushed :
        IsWatchFile(pushed[k]) =>
            /\ BaseAsClaimed(pushed[k])
            /\ opts.base = {} =>
                  /\ IsPrefix(pushed[k].base, pushed[k].path)
                  /\ pushed[k].base \o Relative(pushed[k].base, pushed[k].path) = pushed[k].path

C12_Witness ==
    \E k \in DOMAIN pushed :
        /\ IsWatchFile(pushed[k])
        /\ opts.base = {}
        /\ pushed[k].base = <<"w", "src">>
        /\ Relative(pushed[k].base, pushed[k].path) = <<"a.js">>

(* C13.  An error reported by the watcher is forwarded unchanged as an      *)
(* 'error' event of the stream and does not end the stream: the session     *)
(* goes on as it was, and 'end' is emitted by close() only.                 *)
ErrorStep == Len(errors') = Len(errors) + 1

ErrorForwarded ==
    /\ errors'[Len(errors')].forwarded = errors'[Len(errors')].reported
    /\ emitted' = Append(emitted, [name |-> "error", id |-> 0])

SessionGoesOn ==
    /\ Running'
    /\ UNCHANGED <<closed, globs, watched, timers, reads, pushed, opts>>

Ends(seq) == Cardinality({k \in DOMAIN seq : seq[k].name = "end"})

EndOnlyByClose ==
    (Ends(emitted') # Ends(emitted)) =>
        /\ ~closed /\ closed'
        /\ Len(errors') = Len(errors)

Mirrored(i) ==
    Cardinality({k \in DOMAIN emitted :
                   emitted[k].id = i /\ emitted[k].name = rawLog[i].kind}) = 1

C14_OnlyEnabledKinds ==
    /\ \A k \in DOMAIN pushed :
          IsWatchFile(pushed[k]) =>
              /\ rawLog[pushed[k].id].kind \in opts.events
              /\ pushed[k].event = rawLog[pushed[k].id].kind
    /\ \A t \in Range(timers) \cup reads : rawLog[t.id].kind \in opts.events
    /\ \A i \in DOMAIN rawLog :
          /\ rawLog[i].kind \in MirroredKinds => Mirrored(i)
          /\ ~Enabled(i) =>
                /\ Count(pushed, i) = 0
                /\ Count(cbLog, i) = 0
                /\ Count(logged, i) = 0
                /\ ~Pending(i)
                /\ i \notin failed

C14_Witness ==
    \E i, j \in DOMAIN rawLog :
        /\ ~Enabled(i)
        /\ rawLog[i].kind = "unlinkDir"
        /\ OwnerAt(i) # 0
        /\ Mirrored(i)
        /\ j > i
        /\ Count(pushed, j) = 1

(* C15.  The owner walk ends for every path and pattern list.  It tests   *)
(* the path and then its ancestors, one segment shorter each time; it       *)
(* returns the index the matcher reports for the first candidate that       *)
(* matches; and it returns none exactly when no candidate down to the root  *)
(* matches, the root being the candidate whose dirname is itself.           *)
Candidate(k) == SubSeq(walk.path, 1, Len(walk.path) - k)

WalkTested == walk.tests \in 0..(Len(walk.path) + 1)

WalkLoop ==
    walk.pc = "loop" =>
        /\ walk.cur = Candidate(walk.tests)
        /\ walk.tests <= Len(walk.path)
        /\ \A k \in 0..(walk.tests - 1) : anymatch(walk.gs, Candidate(k)) = 0

WalkDone ==
    walk.pc = "done" =>
        /\ walk.glob = FindOwner(walk.gs, walk.path)
        /\ \A k \in 0..(walk.tests - 2) : anymatch(walk.gs, Candidate(k)) = 0
        /\ walk.glob # 0 => walk.glob = anymatch(walk.gs, Candidate(walk.tests - 1))
        /\ walk.glob = 0 <=>
              /\ walk.tests = Len(walk.path) + 1
              /\ walk.cur = <<>>
              /\ dirname(walk.cur) = walk.cur
              /\ \A k \in 0..Len(walk.path) : anymatch(walk.gs, Candidate(k)) = 0

Delayed(i) == Enabled(i) /\ OwnerAt(i) # 0 /\ rawLog[i].kind \notin UnlinkKinds

Stages(i) ==
    Count(timers, i) + Cardinality({r \in reads : r.id = i})
        + Count(pushed, i) + (IF i \in failed THEN 1 ELSE 0)

C16_EachItsOwn == \A i \in DOMAIN rawLog : Delayed(i) => Stages(i) = 1

C16_NoCoalescing ==
    /\ []C16_EachItsOwn
    /\ [][rawLog' # rawLog => (IsPrefix(timers, timers') /\ reads' = reads)]_vars

C16_Witness ==
    \E i, j \in DOMAIN rawLog :
        /\ i < j
        /\ rawLog[i] = rawLog[j]
        /\ Delayed(i)
        /\ Count(timers, i) = 1
        /\ Count(timers, j) = 1

C16_AllPushed ==
    \E i, j \in DOMAIN rawLog :
        /\ i < j
        /\ rawLog[i] = rawLog[j]
        /\ Delayed(i)
        /\ Count(pushed, i) = 1
        /\ Count(pushed, j) = 1

(* C17.  With the verbose option set, every File Change Event has exactly  *)
(* one notification of the reporter, made before the event was tagged with  *)
(* its kind and before it was pushed; with the option unset there is no     *)
(* notification at all.                                                     *)
Saw(i) == {k \in DOMAIN logged : logged[k].kind = "saw" /\ logged[k].id = i}

C17_LoggedBeforePush ==
    /\ ~opts.verbose => \A k \in DOMAIN logged : logged[k].kind # "saw"
    /\ opts.verbose =>
          /\ \A k \in DOMAIN pushed :
                IsWatchFile(pushed[k]) =>
                    /\ Cardinality(Saw(pushed[k].id)) = 1
                    /\ \A n \in Saw(pushed[k].id) :
                          /\ logged[n].event = pushed[k].event
                          /\ logged[n].tagged = "none"
                          /\ logged[n].npushed = k - 1
          /\ \A n \in DOMAIN logged :
                logged[n].kind = "saw" => Count(pushed, logged[n].id) = 1

C17_Witness ==
    /\ opts.verbose
    /\ \E k \in DOMAIN pushed :
          /\ k >= 2
          /\ IsWatchFile(pushed[k])
          /\ pushed[k].contents = "data"
          /\ Cardinality(Saw(pushed[k].id)) = 1

(* C18.  Between handlers, the per-file callback has been called exactly   *)
(* once for each file object pushed downstream, written ones and File       *)
(* Change Events alike, with that same object, and for no other object.     *)
Times(seq, f) == Cardinality({k \in DOMAIN seq : seq[k] = f})

C18_CallbackPerPush ==
    /\ Len(cbLog) = Len(pushed)
    /\ \A f \in Range(pushed) \cup Range(cbLog) : Times(cbLog, f) = Times(pushed, f)

C18_Witness ==
    /\ \E k \in DOMAIN pushed : IsWatchFile(pushed[k]) /\ pushed[k].contents = "data"
    /\ \E k \in DOMAIN pushed : IsWatchFile(pushed[k]) /\ pushed[k].contents = "null"
    /\ \E k \in DOMAIN pushed : IsWritten(pushed[k])
    /\ Len(cbLog) = 3

(* C19.  Handling a raw event changes neither the options of the session   *)
(* nor the default options.  The base of a File Change Event is that of its *)
(* own owning pattern, whatever events with other owners were handled       *)
(* before it: two events with the same owner have the same base.            *)
Based == Range(WatchPushes(pushed)) \cup Range(timers) \cup reads

C19_BaseOfOwnPattern ==
    /\ \A e \in Based : e.base = BaseFor(opts, globs[OwnerAt(e.id)])
    /\ \A e1, e2 \in Based : OwnerAt(e1.id) = OwnerAt(e2.id) => e1.base = e2.base

C19_OptionsFrozen ==
    /\ []C19_BaseOfOwnPattern
    /\ [][(session = "running" => opts' = opts) /\ defaults' = defaults]_vars

C19_Witness ==
    \E k1, k2 \in DOMAIN pushed :
        /\ k1 < k2
        /\ IsWatchFile(pushed[k1])
        /\ IsWatchFile(pushed[k2])
        /\ opts.base = {}
        /\ pushed[k1].base = <<"w", "src">>
        /\ pushed[k2].base = <<"w", "tests">>

(* C20.  add() called with an absent or empty argument fails with          *)
(* MissingArgument, and with an argument that is neither a string nor a     *)
(* list with InvalidArgument; in both cases the pattern list stays as it    *)
(* was and the watcher is told nothing.                                     *)
IsBadArgument(x) == IsAbsentOrEmpty(x) \/ x.t \notin {"undefined", "string", "array"}

ArgumentError(x) == IF IsAbsentOrEmpty(x) THEN MissingArgument ELSE InvalidArgument

C20_BadAddChangesNothing ==
    [][\A x \in AddArgs :
          (IsBadArgument(x) /\ Add(x)) =>
              (thrown' = ArgumentError(x) /\ UNCHANGED <<globs, watched>>)]_vars

====
